---- MODULE Spec2Model ----
(***************************************************************************)
(* The in-memory Record Store (MemStorage) of the GPA calculator and the   *)
(* HTTP routes that sit in front of it.                                    *)
(*                                                                         *)
(* Four specifications share the state:                                    *)
(*   Spec       every step is one HTTP request handled by registerRoutes   *)
(*   StoreSpec  every step is one direct call of a MemStorage method       *)
(*   AsyncSpec  the same, with deleteSemester in two steps around its await*)
(*   EngineSpec every step is one call of a function of gpa-calculator.ts  *)
(*                                                                         *)
(* The Store and the routes only carry numbers; there a decimal number is  *)
(* an integer: creditHours and gradeValue in tenths, gradePoints in        *)
(* hundredths.  The engine computes with numbers; there a number is the    *)
(* double it is in the program (CourseData converts).  A JavaScript Map is *)
(* a function whose DOMAIN is the key set; ids only grow, so insertion     *)
(* order is ascending key order.                                           *)
(* A string that is parsed is a sequence of one-character strings.         *)
(***************************************************************************)
EXTENDS Integers, Sequences, FiniteSets, TLC

VARIABLES
  storage,            \* the MemStorage singleton
  before,             \* storage as it was before the last step
  called,             \* the last step's call, as <<op, call>>
  responded,          \* the last step's request, as <<route, status, response>>
  createdSemesterIds, \* the ids createSemester has returned, in call order
  createdCourseIds,   \* the ids createCourse has returned, in call order
  suspended           \* the deleteSemester calls waiting at their await

vars == <<storage, before, called, responded, createdSemesterIds, createdCourseIds,
          suspended>>

(* Bounds of the model *)
MaxSemesters == 3
MaxCourses == 2

(***************************************************************************)
(* Inputs                                                                  *)
(***************************************************************************)
SemesterNames == {"Fall"}

\* an id no semester or course ever gets within the bounds
Beyond == (IF MaxSemesters > MaxCourses THEN MaxSemesters ELSE MaxCourses) + 1

\* ids handed to the Store methods by a direct caller
IdInputs == 1..Beyond

\* semester ids a course is created with: the default, a caller's, a missing one
SemesterIdInputs == {1, 2, Beyond}

DigitChars == <<"0", "1", "2", "3", "4", "5", "6", "7", "8", "9">>

\* Number.prototype.toString of a one-digit id
ToParam(n) == <<DigitChars[n + 1]>>

\* req.params.id / req.params.semesterId as sent on the wire
PathParams ==
  {ToParam(i) : i \in IdInputs}
    \cup {<<"1", ".", "5">>, <<"2", "a">>, <<"a">>, <<"-", "1">>, <<" ", "2">>}

\* the course fields of a request body (InsertCourse when all five are there)
CourseFields ==
  { [name |-> "Math", creditHours |-> 30, grade |-> "A/A+", gradeValue |-> 40,
     gradePoints |-> 1200],
    [name |-> "Art", creditHours |-> 5, grade |-> "F", gradeValue |-> 0,
     gradePoints |-> 0] }

\* a body that lacks the required name
IncompleteCourseFields ==
  { [creditHours |-> 30, grade |-> "A/A+", gradeValue |-> 40,
     gradePoints |-> 1200] }

\* well-typed fields that the client form would refuse: an empty name, no
\* credit hours, and grade points that are not creditHours * gradeValue
UncheckedCourseFields ==
  { [name |-> "", creditHours |-> 0, grade |-> "B", gradeValue |-> 30,
     gradePoints |-> 1200] }

\* an optional value: <<>> is undefined, <<v>> is the value v
Undefined == <<>>
Some(v) == <<v>>
OptionalSemesterIds == {Undefined} \cup {Some(i) : i \in SemesterIdInputs}

WithSemesterId(fields, semesterId) ==
  [f \in (DOMAIN fields) \cup {"semesterId"} |->
     IF f = "semesterId" THEN semesterId ELSE fields[f]]

\* req.body of POST /api/courses
CourseBodies ==
  CourseFields \cup IncompleteCourseFields \cup UncheckedCourseFields
    \cup {WithSemesterId(b, s) : b \in CourseFields, s \in SemesterIdInputs \cup {0}}

\* req.body of POST /api/semesters: with a name, or without one
SemesterBodies == {[name |-> n] : n \in SemesterNames} \cup {[title |-> "Fall"]}

(***************************************************************************)
(* Map helpers                                                             *)
(***************************************************************************)
EmptyMap == [k \in {} |-> k]

MapSet(m, k, v) == [x \in (DOMAIN m) \cup {k} |-> IF x = k THEN v ELSE m[x]]

MapDelete(m, k) == [x \in (DOMAIN m) \ {k} |-> m[x]]

MapHas(m, k) == k \in DOMAIN m

RECURSIVE SortedKeys(_)
SortedKeys(S) ==
  IF S = {} THEN <<>>
  ELSE LET lo == CHOOSE x \in S : \A y \in S : x <= y
       IN <<lo>> \o SortedKeys(S \ {lo})

\* Array.from(map.values())
MapValues(m) == LET ks == SortedKeys(DOMAIN m) IN [i \in 1..Len(ks) |-> m[ks[i]]]

(***************************************************************************)
(* MemStorage.  A method takes the object (this) and its arguments and     *)
(* yields the object after the call and the value returned.                *)
(***************************************************************************)
\* createSemester taking the next id from the number of stored semesters
createSemesterBySize(this, insertSemester) ==
  LET id == Cardinality(DOMAIN this.semesterData) + 1
      semester == [name |-> insertSemester.name, id |-> id, userId |-> 1]
  IN [this |-> [this EXCEPT !.semesterCurrentId = @ + 1,
                            !.semesterData = MapSet(@, id, semester)],
      ret |-> semester]

createSemester(this, insertSemester) ==
  LET id == this.semesterCurrentId
      semester == [name |-> insertSemester.name, id |-> id, userId |-> 1]
  IN [this |-> [this EXCEPT !.semesterCurrentId = id + 1,
                            !.semesterData = MapSet(@, id, semester)],
      ret |-> semester]

\* the counters starting at 0 instead of 1
FieldsFromZero ==
  [semesterData |-> EmptyMap, courseData |-> EmptyMap,
   semesterCurrentId |-> 0, courseCurrentId |-> 0]

\* the fields as the constructor sets them before it creates the default semester
Fields ==
  [semesterData |-> EmptyMap, courseData |-> EmptyMap,
   semesterCurrentId |-> 1, courseCurrentId |-> 1]

\* new MemStorage()
MemStorage == createSemester(Fields, [name |-> "Unsorted"]).this

getSemesters(this) == [this |-> this, ret |-> MapValues(this.semesterData)]

getSemesterById(this, id) ==
  [this |-> this,
   ret |-> IF MapHas(this.semesterData, id) THEN Some(this.semesterData[id])
           ELSE Undefined]

\* updateSemesterName giving the name to every stored semester
updateSemesterNameOfEvery(this, id, name) ==
  IF ~MapHas(this.semesterData, id)
  THEN [this |-> this, ret |-> Undefined]
  ELSE LET updatedSemester == [this.semesterData[id] EXCEPT !.name = name]
       IN [this |-> [this EXCEPT !.semesterData =
                       [k \in DOMAIN @ |-> [@[k] EXCEPT !.name = name]]],
           ret |-> Some(updatedSemester)]

updateSemesterName(this, id, name) ==
  IF ~MapHas(this.semesterData, id)
  THEN [this |-> this, ret |-> Undefined]
  ELSE LET updatedSemester == [this.semesterData[id] EXCEPT !.name = name]
       IN [this |-> [this EXCEPT !.semesterData = MapSet(@, id, updatedSemester)],
           ret |-> Some(updatedSemester)]

getCourses(this) == [this |-> this, ret |-> MapValues(this.courseData)]

getCoursesBySemesterId(this, semesterId) ==
  [this |-> this,
   ret |-> SelectSeq(MapValues(this.courseData),
                     LAMBDA course : course.semesterId = semesterId)]

getCourseById(this, id) ==
  [this |-> this,
   ret |-> IF MapHas(this.courseData, id) THEN Some(this.courseData[id])
           ELSE Undefined]

\* the loop of deleteSemester over semesterCourses[i..]
RECURSIVE MoveToDefault(_, _, _)
MoveToDefault(courseData, semesterCourses, i) ==
  IF i > Len(semesterCourses) THEN courseData
  ELSE LET course == semesterCourses[i]
           updatedCourse == [course EXCEPT !.semesterId = 1]
       IN MoveToDefault(MapSet(courseData, course.id, updatedCourse),
                        semesterCourses, i + 1)

\* deleteSemester removing the semester without moving its courses
deleteSemesterNoMove(this, id) ==
  [this |-> [this EXCEPT !.semesterData = MapDelete(@, id)],
   ret |-> MapHas(this.semesterData, id)]

\* deleteSemester deleting the courses of the semester instead of moving them
deleteSemesterCascade(this, id) ==
  [this |-> [this EXCEPT
               !.courseData = [c \in {x \in DOMAIN @ : @[x].semesterId # id} |-> @[c]],
               !.semesterData = MapDelete(@, id)],
   ret |-> MapHas(this.semesterData, id)]

\* deleteSemester reporting success whether or not the semester was stored
deleteSemesterAlwaysTrue(this, id) ==
  LET semesterCourses == getCoursesBySemesterId(this, id).ret
      moved == MoveToDefault(this.courseData, semesterCourses, 1)
  IN [this |-> [this EXCEPT !.courseData = moved,
                            !.semesterData = MapDelete(@, id)],
      ret |-> TRUE]

deleteSemester(this, id) ==
  LET semesterCourses == getCoursesBySemesterId(this, id).ret
      moved == MoveToDefault(this.courseData, semesterCourses, 1)
  IN [this |-> [this EXCEPT !.courseData = moved,
                            !.semesterData = MapDelete(@, id)],
      ret |-> MapHas(this.semesterData, id)]

\* createCourse taking the next id from the number of stored courses
createCourseBySize(this, insertCourse, semesterId) ==
  LET id == Cardinality(DOMAIN this.courseData) + 1
      course == [name |-> insertCourse.name,
                 creditHours |-> insertCourse.creditHours,
                 grade |-> insertCourse.grade,
                 gradeValue |-> insertCourse.gradeValue,
                 gradePoints |-> insertCourse.gradePoints,
                 id |-> id,
                 semesterId |-> IF semesterId = Undefined THEN 1 ELSE semesterId[1],
                 userId |-> 1]
  IN [this |-> [this EXCEPT !.courseCurrentId = @ + 1,
                            !.courseData = MapSet(@, id, course)],
      ret |-> course]

\* createCourse putting every course into the default semester
createCourseIgnoringSemester(this, insertCourse, semesterId) ==
  LET id == this.courseCurrentId
      course == [name |-> insertCourse.name,
                 creditHours |-> insertCourse.creditHours,
                 grade |-> insertCourse.grade,
                 gradeValue |-> insertCourse.gradeValue,
                 gradePoints |-> insertCourse.gradePoints,
                 id |-> id,
                 semesterId |-> 1,
                 userId |-> 1]
  IN [this |-> [this EXCEPT !.courseCurrentId = id + 1,
                            !.courseData = MapSet(@, id, course)],
      ret |-> course]

\* semesterId is optional: the parameter defaults to 1 when it is undefined
\* createCourse storing the course under the incremented counter
createCourseKeyedByCounter(this, insertCourse, semesterId) ==
  LET id == this.courseCurrentId
      course == [name |-> insertCourse.name,
                 creditHours |-> insertCourse.creditHours,
                 grade |-> insertCourse.grade,
                 gradeValue |-> insertCourse.gradeValue,
                 gradePoints |-> insertCourse.gradePoints,
                 id |-> id,
                 semesterId |-> IF semesterId = Undefined THEN 1 ELSE semesterId[1],
                 userId |-> 1]
  IN [this |-> [this EXCEPT !.courseCurrentId = id + 1,
                            !.courseData = MapSet(@, id + 1, course)],
      ret |-> course]

\* createCourse storing no grade points
createCourseWithoutGradePoints(this, insertCourse, semesterId) ==
  LET id == this.courseCurrentId
      course == [name |-> insertCourse.name,
                 creditHours |-> insertCourse.creditHours,
                 grade |-> insertCourse.grade,
                 gradeValue |-> insertCourse.gradeValue,
                 gradePoints |-> 0,
                 id |-> id,
                 semesterId |-> IF semesterId = Undefined THEN 1 ELSE semesterId[1],
                 userId |-> 1]
  IN [this |-> [this EXCEPT !.courseCurrentId = id + 1,
                            !.courseData = MapSet(@, id, course)],
      ret |-> course]

createCourse(this, insertCourse, semesterId) ==
  LET id == this.courseCurrentId
      course == [name |-> insertCourse.name,
                 creditHours |-> insertCourse.creditHours,
                 grade |-> insertCourse.grade,
                 gradeValue |-> insertCourse.gradeValue,
                 gradePoints |-> insertCourse.gradePoints,
                 id |-> id,
                 semesterId |-> IF semesterId = Undefined THEN 1 ELSE semesterId[1],
                 userId |-> 1]
  IN [this |-> [this EXCEPT !.courseCurrentId = id + 1,
                            !.courseData = MapSet(@, id, course)],
      ret |-> course]

\* deleteCourse deleting from the semester map
deleteCourseWrongMap(this, id) ==
  [this |-> [this EXCEPT !.semesterData = MapDelete(@, id)],
   ret |-> MapHas(this.semesterData, id)]

\* deleteCourse reporting success whether or not the course was stored
deleteCourseAlwaysTrue(this, id) ==
  [this |-> [this EXCEPT !.courseData = MapDelete(@, id)], ret |-> TRUE]

deleteCourse(this, id) ==
  [this |-> [this EXCEPT !.courseData = MapDelete(@, id)],
   ret |-> MapHas(this.courseData, id)]

\* deleteAllCourses that also restarts the course counter
deleteAllCoursesReset(this) ==
  [this |-> [this EXCEPT !.courseData = EmptyMap, !.courseCurrentId = 1],
   ret |-> TRUE]

deleteAllCourses(this) ==
  [this |-> [this EXCEPT !.courseData = EmptyMap], ret |-> TRUE]

(***************************************************************************)
(* State                                                                   *)
(***************************************************************************)
NoCall == [op |-> "none", arg |-> <<>>, ret |-> <<>>]
NoRequest == [route |-> "none", param |-> <<>>, body |-> <<>>, status |-> 0,
              json |-> <<>>]

\* the method or function the last step ran, with its arguments and what it
\* returned
call == called[2]

\* the request of the last step and its answer
response == responded[3]

\* The operation comes before the call, and the route and status before the
\* response, so that two steps are told apart by these before values of
\* different kinds (a record, a list, a message) are compared.
LastCall(c) == <<c.op, c>>
LastRequest(r) == <<r.route, r.status, r>>

Init ==
  /\ storage = MemStorage
  /\ before = Fields
  /\ called = LastCall([op |-> "constructor", arg |-> <<>>, ret |-> <<>>])
  /\ responded = LastRequest(NoRequest)
  /\ createdSemesterIds = <<createSemester(Fields, [name |-> "Unsorted"]).ret.id>>
  /\ createdCourseIds = <<>>
  /\ suspended = <<>>

\* one Store method has run: r is what it yielded
Called(op, arg, r) ==
  /\ storage' = r.this
  /\ before' = storage
  /\ called' = LastCall([op |-> op, arg |-> arg, ret |-> r.ret])
  /\ createdSemesterIds' = IF op = "createSemester"
                           THEN Append(createdSemesterIds, r.ret.id)
                           ELSE createdSemesterIds
  /\ createdCourseIds' = IF op = "createCourse"
                         THEN Append(createdCourseIds, r.ret.id)
                         ELSE createdCourseIds
  /\ suspended' = suspended

\* a handler has answered without reaching the Store
NotCalled ==
  /\ called' = LastCall(NoCall)
  /\ before' = storage
  /\ UNCHANGED <<storage, createdSemesterIds, createdCourseIds, suspended>>

(***************************************************************************)
(* Direct calls of the Store (StoreSpec)                                   *)
(***************************************************************************)
CallCreateSemester ==
  \E name \in SemesterNames :
    /\ storage.semesterCurrentId <= MaxSemesters
    /\ Called("createSemester", <<[name |-> name]>>,
              createSemester(storage, [name |-> name]))
    /\ responded' = LastRequest(NoRequest)

CallUpdateSemesterName ==
  \E id \in IdInputs, name \in SemesterNames :
    /\ Called("updateSemesterName", <<id, name>>,
              updateSemesterName(storage, id, name))
    /\ responded' = LastRequest(NoRequest)

CallDeleteSemester ==
  \E id \in IdInputs :
    /\ Called("deleteSemester", <<id>>, deleteSemester(storage, id))
    /\ responded' = LastRequest(NoRequest)

CallCreateCourse ==
  \E insertCourse \in CourseFields, semesterId \in OptionalSemesterIds :
    /\ storage.courseCurrentId <= MaxCourses
    /\ Called("createCourse", <<insertCourse, semesterId>>,
              createCourse(storage, insertCourse, semesterId))
    /\ responded' = LastRequest(NoRequest)

CallDeleteCourse ==
  \E id \in IdInputs :
    /\ Called("deleteCourse", <<id>>, deleteCourse(storage, id))
    /\ responded' = LastRequest(NoRequest)

CallDeleteAllCourses ==
  /\ Called("deleteAllCourses", <<>>, deleteAllCourses(storage))
  /\ responded' = LastRequest(NoRequest)

CallGetSemesters ==
  /\ Called("getSemesters", <<>>, getSemesters(storage))
  /\ responded' = LastRequest(NoRequest)

CallGetSemesterById ==
  \E id \in IdInputs :
    /\ Called("getSemesterById", <<id>>, getSemesterById(storage, id))
    /\ responded' = LastRequest(NoRequest)

CallGetCourses ==
  /\ Called("getCourses", <<>>, getCourses(storage))
  /\ responded' = LastRequest(NoRequest)

CallGetCoursesBySemesterId ==
  \E id \in IdInputs :
    /\ Called("getCoursesBySemesterId", <<id>>, getCoursesBySemesterId(storage, id))
    /\ responded' = LastRequest(NoRequest)

CallGetCourseById ==
  \E id \in IdInputs :
    /\ Called("getCourseById", <<id>>, getCourseById(storage, id))
    /\ responded' = LastRequest(NoRequest)

StoreNext ==
  \/ CallCreateSemester
  \/ CallUpdateSemesterName
  \/ CallDeleteSemester
  \/ CallCreateCourse
  \/ CallDeleteCourse
  \/ CallDeleteAllCourses
  \/ CallGetSemesters
  \/ CallGetSemesterById
  \/ CallGetCourses
  \/ CallGetCoursesBySemesterId
  \/ CallGetCourseById

StoreSpec == Init /\ [][StoreNext]_vars

(***************************************************************************)
(* deleteSemester with its await (AsyncSpec): the call reads the courses   *)
(* of the semester, is suspended at the await, and moves the courses and   *)
(* removes the semester when it is resumed.  The other methods have no     *)
(* await of their own and run in one step, also while a call is suspended. *)
(***************************************************************************)
MaxSuspended == 1

\* deleteSemester from the await on: semesterCourses is the awaited list
deleteSemesterAfterAwait(this, id, semesterCourses) ==
  LET moved == MoveToDefault(this.courseData, semesterCourses, 1)
  IN [this |-> [this EXCEPT !.courseData = moved,
                            !.semesterData = MapDelete(@, id)],
      ret |-> MapHas(this.semesterData, id)]

\* const semesterCourses = await this.getCoursesBySemesterId(id)
DeleteSemesterAwait ==
  \E id \in IdInputs :
    LET r == getCoursesBySemesterId(storage, id)
    IN /\ Len(suspended) < MaxSuspended
       /\ suspended' = Append(suspended, [id |-> id, semesterCourses |-> r.ret])
       /\ called' = LastCall([op |-> "getCoursesBySemesterId", arg |-> <<id>>, ret |-> r.ret])
       /\ before' = storage
       /\ responded' = LastRequest(NoRequest)
       /\ UNCHANGED <<storage, createdSemesterIds, createdCourseIds>>

\* a suspended deleteSemester runs to its end
DeleteSemesterResume ==
  \E k \in 1..Len(suspended) :
    LET frame == suspended[k]
        r == deleteSemesterAfterAwait(storage, frame.id, frame.semesterCourses)
    IN /\ suspended' = [j \in 1..(Len(suspended) - 1) |->
                          IF j < k THEN suspended[j] ELSE suspended[j + 1]]
       /\ storage' = r.this
       /\ before' = storage
       /\ called' = LastCall([op |-> "deleteSemester", arg |-> <<frame.id>>, ret |-> r.ret])
       /\ responded' = LastRequest(NoRequest)
       /\ UNCHANGED <<createdSemesterIds, createdCourseIds>>

AsyncNext ==
  \/ DeleteSemesterAwait
  \/ DeleteSemesterResume
  \/ CallCreateSemester
  \/ CallCreateCourse
  \/ CallDeleteCourse
  \/ CallDeleteAllCourses

AsyncSpec == Init /\ [][AsyncNext]_vars

(***************************************************************************)
(* Number parsing of a path parameter                                      *)
(***************************************************************************)
NaN == [nan |-> TRUE, n |-> 0]
Number(n) == [nan |-> FALSE, n |-> n]
isNaN(v) == v.nan

IsDigit(c) == \E d \in 1..10 : DigitChars[d] = c
DigitValue(c) == (CHOOSE d \in 1..10 : DigitChars[d] = c) - 1

\* the value of the longest run of decimal digits of str that starts at i
RECURSIVE ParseDigits(_, _, _)
ParseDigits(str, i, acc) ==
  IF i > Len(str) \/ ~IsDigit(str[i]) THEN acc
  ELSE ParseDigits(str, i + 1, acc * 10 + DigitValue(str[i]))

RECURSIVE SkipWhiteSpace(_, _)
SkipWhiteSpace(str, i) ==
  IF i <= Len(str) /\ str[i] = " " THEN SkipWhiteSpace(str, i + 1) ELSE i

\* parseInt(str) with no radix, for strings without a 0x prefix
parseInt(str) ==
  LET i0 == SkipWhiteSpace(str, 1)
      signed == i0 <= Len(str) /\ str[i0] \in {"+", "-"}
      i1 == IF signed THEN i0 + 1 ELSE i0
  IN IF i1 > Len(str) \/ ~IsDigit(str[i1]) THEN NaN
     ELSE IF signed /\ str[i0] = "-" THEN Number(0 - ParseDigits(str, i1, 0))
     ELSE Number(ParseDigits(str, i1, 0))

\* parseInt(req.params.id) for every parameter the model sends
parsed == [param \in PathParams |-> parseInt(param)]

(***************************************************************************)
(* Request bodies                                                          *)
(***************************************************************************)
\* const { semesterId, ...courseData } = req.body
BodySemesterId(body) ==
  IF "semesterId" \in DOMAIN body THEN Some(body.semesterId) ELSE Undefined

RestOfBody(body) == [f \in (DOMAIN body) \ {"semesterId"} |-> body[f]]

\* semesterId || 1
OrOne(semesterId) ==
  IF semesterId = Undefined \/ semesterId[1] = 0 THEN 1 ELSE semesterId[1]

\* insertCourseSchema.safeParse(courseData).success
insertCourseSchema(courseData) ==
  {"name", "creditHours", "grade", "gradeValue", "gradePoints"} \subseteq DOMAIN courseData

\* insertSemesterSchema.safeParse(req.body).success
insertSemesterSchema(body) == "name" \in DOMAIN body

(***************************************************************************)
(* The routes (Spec).  The Store never throws, so no handler answers 500.  *)
(***************************************************************************)
Respond(route, param, body, status, json) ==
  responded' = LastRequest([route |-> route, param |-> param, body |-> body,
                            status |-> status, json |-> json])

GetSemesters ==
  LET r == getSemesters(storage)
  IN /\ Called("getSemesters", <<>>, r)
     /\ Respond("GET /api/semesters", <<>>, <<>>, 200, r.ret)

GetSemester ==
  \E param \in PathParams :
    LET id == parsed[param]
        r == getSemesterById(storage, id.n)
    IN IF isNaN(id)
       THEN /\ NotCalled
            /\ Respond("GET /api/semesters/:id", param, <<>>, 400, "Invalid semester ID")
       ELSE /\ Called("getSemesterById", <<id.n>>, r)
            /\ IF r.ret = Undefined
               THEN Respond("GET /api/semesters/:id", param, <<>>, 404, "Semester not found")
               ELSE Respond("GET /api/semesters/:id", param, <<>>, 200, r.ret[1])

PostSemester ==
  \E body \in SemesterBodies :
    IF ~insertSemesterSchema(body)
    THEN /\ NotCalled
         /\ Respond("POST /api/semesters", <<>>, body, 400, "Validation error")
    ELSE LET r == createSemester(storage, [name |-> body.name])
         IN /\ storage.semesterCurrentId <= MaxSemesters
            /\ Called("createSemester", <<[name |-> body.name]>>, r)
            /\ Respond("POST /api/semesters", <<>>, body, 201, r.ret)

\* DELETE /api/semesters/:id guarding the default semester by the raw parameter
DeleteSemesterRawGuard ==
  \E param \in PathParams :
    LET id == parsed[param]
        r == deleteSemester(storage, id.n)
    IN IF isNaN(id)
       THEN /\ NotCalled
            /\ Respond("DELETE /api/semesters/:id", param, <<>>, 400, "Invalid semester ID")
       ELSE IF param = <<"1">>
       THEN /\ NotCalled
            /\ Respond("DELETE /api/semesters/:id", param, <<>>, 400,
                       "Cannot delete the default semester")
       ELSE /\ Called("deleteSemester", <<id.n>>, r)
            /\ IF ~r.ret
               THEN Respond("DELETE /api/semesters/:id", param, <<>>, 404,
                            "Semester not found")
               ELSE Respond("DELETE /api/semesters/:id", param, <<>>, 200,
                            "Semester deleted successfully")

DeleteSemester ==
  \E param \in PathParams :
    LET id == parsed[param]
        r == deleteSemester(storage, id.n)
    IN IF isNaN(id)
       THEN /\ NotCalled
            /\ Respond("DELETE /api/semesters/:id", param, <<>>, 400, "Invalid semester ID")
       ELSE IF id.n = 1
       THEN /\ NotCalled
            /\ Respond("DELETE /api/semesters/:id", param, <<>>, 400,
                       "Cannot delete the default semester")
       ELSE /\ Called("deleteSemester", <<id.n>>, r)
            /\ IF ~r.ret
               THEN Respond("DELETE /api/semesters/:id", param, <<>>, 404,
                            "Semester not found")
               ELSE Respond("DELETE /api/semesters/:id", param, <<>>, 200,
                            "Semester deleted successfully")

GetCourses ==
  LET r == getCourses(storage)
  IN /\ Called("getCourses", <<>>, r)
     /\ Respond("GET /api/courses", <<>>, <<>>, 200, r.ret)

GetSemesterCourses ==
  \E param \in PathParams :
    LET semesterId == parsed[param]
        r == getCoursesBySemesterId(storage, semesterId.n)
    IN IF isNaN(semesterId)
       THEN /\ NotCalled
            /\ Respond("GET /api/semesters/:semesterId/courses", param, <<>>, 400,
                       "Invalid semester ID")
       ELSE /\ Called("getCoursesBySemesterId", <<semesterId.n>>, r)
            /\ Respond("GET /api/semesters/:semesterId/courses", param, <<>>, 200, r.ret)

PostCourse ==
  \E body \in CourseBodies :
    LET semesterId == BodySemesterId(body)
        courseData == RestOfBody(body)
    IN IF ~insertCourseSchema(courseData)
       THEN /\ NotCalled
            /\ Respond("POST /api/courses", <<>>, body, 400, "Validation error")
       ELSE LET r == createCourse(storage, courseData, Some(OrOne(semesterId)))
            IN /\ storage.courseCurrentId <= MaxCourses
               /\ Called("createCourse", <<courseData, Some(OrOne(semesterId))>>, r)
               /\ Respond("POST /api/courses", <<>>, body, 201, r.ret)

DeleteCourse ==
  \E param \in PathParams :
    LET id == parsed[param]
        r == deleteCourse(storage, id.n)
    IN IF isNaN(id)
       THEN /\ NotCalled
            /\ Respond("DELETE /api/courses/:id", param, <<>>, 400, "Invalid course ID")
       ELSE /\ Called("deleteCourse", <<id.n>>, r)
            /\ IF ~r.ret
               THEN Respond("DELETE /api/courses/:id", param, <<>>, 404, "Course not found")
               ELSE Respond("DELETE /api/courses/:id", param, <<>>, 200,
                            "Course deleted successfully")

DeleteCourses ==
  LET r == deleteAllCourses(storage)
  IN /\ Called("deleteAllCourses", <<>>, r)
     /\ Respond("DELETE /api/courses", <<>>, <<>>, 200, "All courses deleted successfully")

Next ==
  \/ GetSemesters
  \/ GetSemester
  \/ PostSemester
  \/ DeleteSemester
  \/ GetCourses
  \/ GetSemesterCourses
  \/ PostCourse
  \/ DeleteCourse
  \/ DeleteCourses

Spec == Init /\ [][Next]_vars

(***************************************************************************)
(* The numbers of the GPA engine.  A JavaScript number is an IEEE 754      *)
(* double: sign * mant * 2^exp with mant an odd natural number below 2^53  *)
(* (or zero), NaN, Infinity or -Infinity.  mant is kept as a sequence of   *)
(* limbs of LimbBits bits, least significant first, because it is wider    *)
(* than an integer of the model checker.  The results of +, * and / are    *)
(* rounded to the nearest double, ties to the even one.  The exponent is   *)
(* not bounded: no number here comes near the largest or smallest double.  *)
(***************************************************************************)
LimbBits == 15
Base == 2 ^ LimbBits
Precision == 53

Max(a, b) == IF a >= b THEN a ELSE b
Min(a, b) == IF a <= b THEN a ELSE b

\* a without its leading zero limbs
RECURSIVE Trim(_)
Trim(a) ==
  IF a # <<>> /\ a[Len(a)] = 0 THEN Trim(SubSeq(a, 1, Len(a) - 1)) ELSE a

\* the limbs of a natural number n
RECURSIVE NatOf(_)
NatOf(n) == IF n = 0 THEN <<>> ELSE <<n % Base>> \o NatOf(n \div Base)

Limb(a, i) == IF i <= Len(a) THEN a[i] ELSE 0

RECURSIVE AddFrom(_, _, _, _)
AddFrom(a, b, i, carry) ==
  IF i > Len(a) /\ i > Len(b) THEN (IF carry = 0 THEN <<>> ELSE <<carry>>)
  ELSE LET t == Limb(a, i) + Limb(b, i) + carry
       IN <<t % Base>> \o AddFrom(a, b, i + 1, t \div Base)

AddNat(a, b) == AddFrom(a, b, 1, 0)

RECURSIVE SubFrom(_, _, _, _)
SubFrom(a, b, i, borrow) ==
  IF i > Len(a) THEN <<>>
  ELSE LET t == a[i] - Limb(b, i) - borrow
       IN <<IF t < 0 THEN t + Base ELSE t>>
            \o SubFrom(a, b, i + 1, IF t < 0 THEN 1 ELSE 0)

\* a - b for a >= b
SubNat(a, b) == Trim(SubFrom(a, b, 1, 0))

RECURSIVE CompareFrom(_, _, _)
CompareFrom(a, b, i) ==
  IF i = 0 THEN 0
  ELSE IF a[i] < b[i] THEN 0 - 1
  ELSE IF a[i] > b[i] THEN 1
  ELSE CompareFrom(a, b, i - 1)

\* -1, 0 or 1 as a < b, a = b or a > b
CompareNat(a, b) ==
  IF Len(a) < Len(b) THEN 0 - 1
  ELSE IF Len(a) > Len(b) THEN 1
  ELSE CompareFrom(a, b, Len(a))

RECURSIVE MulSmallFrom(_, _, _, _)
MulSmallFrom(a, k, i, carry) ==
  IF i > Len(a) THEN (IF carry = 0 THEN <<>> ELSE <<carry>>)
  ELSE LET t == a[i] * k + carry
       IN <<t % Base>> \o MulSmallFrom(a, k, i + 1, t \div Base)

\* a * k for 0 <= k < Base
MulSmall(a, k) == IF k = 0 THEN <<>> ELSE MulSmallFrom(a, k, 1, 0)

\* a * Base^n
ShiftLimbs(a, n) == IF a = <<>> THEN <<>> ELSE [i \in 1..n |-> 0] \o a

RECURSIVE MulFrom(_, _, _)
MulFrom(a, b, i) ==
  IF i > Len(b) THEN <<>>
  ELSE AddNat(MulSmall(a, b[i]), ShiftLimbs(MulFrom(a, b, i + 1), 1))

MulNat(a, b) == MulFrom(a, b, 1)

RECURSIVE DivSmallFrom(_, _, _, _)
DivSmallFrom(a, k, i, r) ==
  IF i = 0 THEN <<<<>>, r>>
  ELSE LET t == r * Base + a[i]
           rest == DivSmallFrom(a, k, i - 1, t % k)
       IN <<Append(rest[1], t \div k), rest[2]>>

\* <<a \div k, a % k>> for 0 < k < Base
DivSmall(a, k) ==
  LET d == DivSmallFrom(a, k, Len(a), 0) IN <<Trim(d[1]), d[2]>>

RECURSIVE BitLengthOfLimb(_)
BitLengthOfLimb(n) == IF n = 0 THEN 0 ELSE 1 + BitLengthOfLimb(n \div 2)

\* the number of bits of a
BitLength(a) ==
  IF a = <<>> THEN 0 ELSE LimbBits * (Len(a) - 1) + BitLengthOfLimb(a[Len(a)])

\* bit i of a, bit 0 the least significant
Bit(a, i) == (Limb(a, (i \div LimbBits) + 1) \div (2 ^ (i % LimbBits))) % 2

\* a * 2^k
ShiftLeft(a, k) == ShiftLimbs(MulSmall(a, 2 ^ (k % LimbBits)), k \div LimbBits)

\* a \div 2^k
ShiftRight(a, k) ==
  IF k \div LimbBits >= Len(a) THEN <<>>
  ELSE DivSmall(SubSeq(a, (k \div LimbBits) + 1, Len(a)), 2 ^ (k % LimbBits))[1]

\* long division, bit j of one limb of the dividend at a time: qr is
\* <<quotient, remainder>> of the bits taken so far
RECURSIVE DivBits(_, _, _, _)
DivBits(limb, b, j, qr) ==
  IF j < 0 THEN qr
  ELSE LET r == AddNat(MulSmall(qr[2], 2), NatOf((limb \div (2 ^ j)) % 2))
       IN IF CompareNat(r, b) >= 0
          THEN DivBits(limb, b, j - 1, <<AddNat(MulSmall(qr[1], 2), <<1>>), SubNat(r, b)>>)
          ELSE DivBits(limb, b, j - 1, <<MulSmall(qr[1], 2), r>>)

\* limb i of the dividend and those below it; the remainder so far is
\* always below b
RECURSIVE DivLimbs(_, _, _, _)
DivLimbs(a, b, i, qr) ==
  IF i = 0 \/ CompareNat(qr[2], b) >= 0 THEN qr
  ELSE DivLimbs(a, b, i - 1, DivBits(a[i], b, LimbBits - 1, qr))

\* <<a \div b, a % b>> for b > 0
DivNat(a, b) ==
  IF Len(b) = 1 THEN LET d == DivSmall(a, b[1]) IN <<d[1], NatOf(d[2])>>
  ELSE DivLimbs(a, b, Len(a), <<<<>>, <<>>>>)

\* the number of zero bits below the lowest one bit of a limb n > 0
RECURSIVE TrailingZerosOfLimb(_)
TrailingZerosOfLimb(n) == IF n % 2 = 1 THEN 0 ELSE 1 + TrailingZerosOfLimb(n \div 2)

\* the same for a > 0, from limb i on
RECURSIVE TrailingZeros(_, _)
TrailingZeros(a, i) ==
  IF a[i] = 0 THEN LimbBits + TrailingZeros(a, i + 1) ELSE TrailingZerosOfLimb(a[i])

NotANumber == [kind |-> "NaN", sign |-> 1, mant |-> <<>>, exp |-> 0]
Infinity(sign) == [kind |-> "Infinity", sign |-> sign, mant |-> <<>>, exp |-> 0]
Zero(sign) == [kind |-> "finite", sign |-> sign, mant |-> <<>>, exp |-> 0]

\* sign * mant * 2^exp for a mant below 2^53, with mant made odd
Finite(sign, mant, exp) ==
  IF mant = <<>> THEN Zero(sign)
  ELSE LET t == TrailingZeros(mant, 1)
       IN [kind |-> "finite", sign |-> sign, mant |-> ShiftRight(mant, t),
           exp |-> exp + t]

\* the double nearest to sign * (n / d) * 2^exp, for natural numbers n and
\* d > 0: the quotient is taken to at least two bits more than Precision,
\* and rounded up when what is cut off is more than half a unit of the
\* last kept bit, or is half a unit and the last kept bit is odd
Round(sign, n, d, exp) ==
  IF n = <<>> THEN Zero(sign)
  ELSE LET s == Max(0, Precision + 2 + BitLength(d) - BitLength(n))
           qr == DivNat(ShiftLeft(n, s), d)
           drop == BitLength(qr[1]) - Precision
           kept == ShiftRight(qr[1], drop)
           cut == CompareNat(SubNat(qr[1], ShiftLeft(kept, drop)),
                             ShiftLeft(<<1>>, drop - 1))
           up == cut > 0 \/ (cut = 0 /\ (qr[2] # <<>> \/ Bit(kept, 0) = 1))
       IN Finite(sign, IF up THEN AddNat(kept, <<1>>) ELSE kept, exp - s + drop)

RECURSIVE PowerOfTen(_)
PowerOfTen(k) == IF k = 0 THEN 1 ELSE 10 * PowerOfTen(k - 1)

\* the number a decimal literal denotes: n / 10^places for an integer n
Decimal(n, places) ==
  Round(IF n < 0 THEN 0 - 1 ELSE 1, NatOf(IF n < 0 THEN 0 - n ELSE n),
        NatOf(PowerOfTen(places)), 0)

\* the mantissas of two finite numbers brought to the smaller exponent
Aligned(a, b) ==
  LET e == Min(a.exp, b.exp)
  IN <<ShiftLeft(a.mant, a.exp - e), ShiftLeft(b.mant, b.exp - e), e>>

\* a + b
Plus(a, b) ==
  IF a.kind = "NaN" \/ b.kind = "NaN" THEN NotANumber
  ELSE IF a.kind = "Infinity"
  THEN (IF b.kind = "Infinity" /\ b.sign # a.sign THEN NotANumber ELSE a)
  ELSE IF b.kind = "Infinity" THEN b
  ELSE LET m == Aligned(a, b)
           c == CompareNat(m[1], m[2])
       IN IF a.sign = b.sign THEN Round(a.sign, AddNat(m[1], m[2]), <<1>>, m[3])
          ELSE IF c = 0 THEN Zero(1)
          ELSE IF c > 0 THEN Round(a.sign, SubNat(m[1], m[2]), <<1>>, m[3])
          ELSE Round(b.sign, SubNat(m[2], m[1]), <<1>>, m[3])

\* a * b
Times(a, b) ==
  IF a.kind = "NaN" \/ b.kind = "NaN" THEN NotANumber
  ELSE IF a.kind = "Infinity" \/ b.kind = "Infinity"
  THEN (IF (a.kind = "finite" /\ a.mant = <<>>) \/ (b.kind = "finite" /\ b.mant = <<>>)
        THEN NotANumber ELSE Infinity(a.sign * b.sign))
  ELSE Round(a.sign * b.sign, MulNat(a.mant, b.mant), <<1>>, a.exp + b.exp)

\* a / b
DividedBy(a, b) ==
  IF a.kind = "NaN" \/ b.kind = "NaN" THEN NotANumber
  ELSE IF a.kind = "Infinity"
  THEN (IF b.kind = "Infinity" THEN NotANumber ELSE Infinity(a.sign * b.sign))
  ELSE IF b.kind = "Infinity" THEN Zero(a.sign * b.sign)
  ELSE IF b.mant = <<>>
  THEN (IF a.mant = <<>> THEN NotANumber ELSE Infinity(a.sign * b.sign))
  ELSE Round(a.sign * b.sign, a.mant, b.mant, a.exp - b.exp)

\* -1, 0 or 1 as a < b, a = b or a > b, for numbers other than NaN
Compare(a, b) ==
  LET Side(x) == IF x.kind = "finite" /\ x.mant = <<>> THEN 0 ELSE x.sign
  IN IF Side(a) # Side(b) THEN (IF Side(a) < Side(b) THEN 0 - 1 ELSE 1)
     ELSE IF Side(a) = 0 THEN 0
     ELSE IF a.kind = "Infinity" THEN (IF b.kind = "Infinity" THEN 0 ELSE a.sign)
     ELSE IF b.kind = "Infinity" THEN 0 - b.sign
     ELSE LET m == Aligned(a, b) IN a.sign * CompareNat(m[1], m[2])

\* a >= b
AtLeast(a, b) == a.kind # "NaN" /\ b.kind # "NaN" /\ Compare(a, b) >= 0

\* a === b
StrictEquals(a, b) == a.kind # "NaN" /\ b.kind # "NaN" /\ Compare(a, b) = 0

\* a > b
GreaterThan(a, b) == a.kind # "NaN" /\ b.kind # "NaN" /\ Compare(a, b) > 0

(***************************************************************************)
(* The GPA engine (gpa-calculator.ts) and EngineSpec, in which every step  *)
(* is one call of an engine function.                                      *)
(***************************************************************************)
MaxCourseList == 3

\* the gradeValues object, in declaration order
gradeValues ==
  << [letter |-> "A/A+", value |-> Decimal(40, 1)],
     [letter |-> "A-", value |-> Decimal(37, 1)],
     [letter |-> "B+", value |-> Decimal(33, 1)],
     [letter |-> "B", value |-> Decimal(30, 1)],
     [letter |-> "B-", value |-> Decimal(27, 1)],
     [letter |-> "C+", value |-> Decimal(23, 1)],
     [letter |-> "C", value |-> Decimal(20, 1)],
     [letter |-> "C-", value |-> Decimal(17, 1)],
     [letter |-> "D+", value |-> Decimal(13, 1)],
     [letter |-> "D", value |-> Decimal(10, 1)],
     [letter |-> "D-", value |-> Decimal(7, 1)],
     [letter |-> "F", value |-> Decimal(0, 1)] >>

\* the forEach body overwriting the totals instead of adding to them
RECURSIVE ForEachCourseOverwrite(_, _, _)
ForEachCourseOverwrite(courses, i, totals) ==
  IF i > Len(courses) THEN totals
  ELSE ForEachCourseOverwrite(courses, i + 1,
         [totalCreditHours |-> courses[i].creditHours,
          totalGradePoints |-> courses[i].gradePoints])

\* courses.forEach(...) from element i on
RECURSIVE ForEachCourse(_, _, _)
ForEachCourse(courses, i, totals) ==
  IF i > Len(courses) THEN totals
  ELSE ForEachCourse(courses, i + 1,
         [totalCreditHours |-> Plus(totals.totalCreditHours, courses[i].creditHours),
          totalGradePoints |-> Plus(totals.totalGradePoints, courses[i].gradePoints)])

\* calculateCumulativeGPA dividing by the number of courses
calculateCumulativeGPAByCount(courses) ==
  IF Len(courses) = 0
  THEN [totalCreditHours |-> Decimal(0, 0), totalGradePoints |-> Decimal(0, 0),
        gpa |-> Decimal(0, 0)]
  ELSE LET totals == ForEachCourse(courses, 1,
                       [totalCreditHours |-> Decimal(0, 0),
                        totalGradePoints |-> Decimal(0, 0)])
       IN [totalCreditHours |-> totals.totalCreditHours,
           totalGradePoints |-> totals.totalGradePoints,
           gpa |-> DividedBy(totals.totalGradePoints, Decimal(Len(courses), 0))]

\* calculateCumulativeGPA without the early return for the empty list
calculateCumulativeGPANoEmptyCase(courses) ==
  LET totals == ForEachCourse(courses, 1,
                  [totalCreditHours |-> Decimal(0, 0),
                   totalGradePoints |-> Decimal(0, 0)])
  IN [totalCreditHours |-> totals.totalCreditHours,
      totalGradePoints |-> totals.totalGradePoints,
      gpa |-> DividedBy(totals.totalGradePoints, totals.totalCreditHours)]

\* calculateCumulativeGPA dividing the credit hours by the grade points
calculateCumulativeGPAInverted(courses) ==
  IF Len(courses) = 0
  THEN [totalCreditHours |-> Decimal(0, 0), totalGradePoints |-> Decimal(0, 0),
        gpa |-> Decimal(0, 0)]
  ELSE LET totals == ForEachCourse(courses, 1,
                       [totalCreditHours |-> Decimal(0, 0),
                        totalGradePoints |-> Decimal(0, 0)])
       IN [totalCreditHours |-> totals.totalCreditHours,
           totalGradePoints |-> totals.totalGradePoints,
           gpa |-> DividedBy(totals.totalCreditHours, totals.totalGradePoints)]

calculateCumulativeGPA(courses) ==
  IF Len(courses) = 0
  THEN [totalCreditHours |-> Decimal(0, 0), totalGradePoints |-> Decimal(0, 0),
        gpa |-> Decimal(0, 0)]
  ELSE LET totals == ForEachCourse(courses, 1,
                       [totalCreditHours |-> Decimal(0, 0),
                        totalGradePoints |-> Decimal(0, 0)])
       IN [totalCreditHours |-> totals.totalCreditHours,
           totalGradePoints |-> totals.totalGradePoints,
           gpa |-> DividedBy(totals.totalGradePoints, totals.totalCreditHours)]

\* getLetterGrade comparing with > instead of >= at the A- cutoff
getLetterGradeStrictCutoff(gpaValue) ==
  IF AtLeast(gpaValue, Decimal(40, 1)) THEN "A/A+"
  ELSE IF GreaterThan(gpaValue, Decimal(37, 1)) THEN "A-"
  ELSE IF AtLeast(gpaValue, Decimal(33, 1)) THEN "B+"
  ELSE IF AtLeast(gpaValue, Decimal(30, 1)) THEN "B"
  ELSE IF AtLeast(gpaValue, Decimal(27, 1)) THEN "B-"
  ELSE IF AtLeast(gpaValue, Decimal(23, 1)) THEN "C+"
  ELSE IF AtLeast(gpaValue, Decimal(20, 1)) THEN "C"
  ELSE IF AtLeast(gpaValue, Decimal(17, 1)) THEN "C-"
  ELSE IF AtLeast(gpaValue, Decimal(13, 1)) THEN "D+"
  ELSE IF AtLeast(gpaValue, Decimal(10, 1)) THEN "D"
  ELSE IF AtLeast(gpaValue, Decimal(7, 1)) THEN "D-"
  ELSE "F"

\* getLetterGrade without the D- branch
getLetterGradeWithoutLastCutoff(gpaValue) ==
  IF AtLeast(gpaValue, Decimal(40, 1)) THEN "A/A+"
  ELSE IF AtLeast(gpaValue, Decimal(37, 1)) THEN "A-"
  ELSE IF AtLeast(gpaValue, Decimal(33, 1)) THEN "B+"
  ELSE IF AtLeast(gpaValue, Decimal(30, 1)) THEN "B"
  ELSE IF AtLeast(gpaValue, Decimal(27, 1)) THEN "B-"
  ELSE IF AtLeast(gpaValue, Decimal(23, 1)) THEN "C+"
  ELSE IF AtLeast(gpaValue, Decimal(20, 1)) THEN "C"
  ELSE IF AtLeast(gpaValue, Decimal(17, 1)) THEN "C-"
  ELSE IF AtLeast(gpaValue, Decimal(13, 1)) THEN "D+"
  ELSE IF AtLeast(gpaValue, Decimal(10, 1)) THEN "D"
  ELSE "F"

getLetterGrade(gpaValue) ==
  IF AtLeast(gpaValue, Decimal(40, 1)) THEN "A/A+"
  ELSE IF AtLeast(gpaValue, Decimal(37, 1)) THEN "A-"
  ELSE IF AtLeast(gpaValue, Decimal(33, 1)) THEN "B+"
  ELSE IF AtLeast(gpaValue, Decimal(30, 1)) THEN "B"
  ELSE IF AtLeast(gpaValue, Decimal(27, 1)) THEN "B-"
  ELSE IF AtLeast(gpaValue, Decimal(23, 1)) THEN "C+"
  ELSE IF AtLeast(gpaValue, Decimal(20, 1)) THEN "C"
  ELSE IF AtLeast(gpaValue, Decimal(17, 1)) THEN "C-"
  ELSE IF AtLeast(gpaValue, Decimal(13, 1)) THEN "D+"
  ELSE IF AtLeast(gpaValue, Decimal(10, 1)) THEN "D"
  ELSE IF AtLeast(gpaValue, Decimal(7, 1)) THEN "D-"
  ELSE "F"

\* the loop of getGradeLetterFromValue over Object.entries(gradeValues)[i..]
RECURSIVE FindLetter(_, _)
FindLetter(gradeValue, i) ==
  IF i > Len(gradeValues) THEN "Unknown"
  ELSE IF StrictEquals(gradeValue, gradeValues[i].value) THEN gradeValues[i].letter
  ELSE FindLetter(gradeValue, i + 1)

\* getGradeLetterFromValue taking the first entry the value reaches
RECURSIVE FindLetterAtOrBelow(_, _)
FindLetterAtOrBelow(gradeValue, i) ==
  IF i > Len(gradeValues) THEN "Unknown"
  ELSE IF AtLeast(gradeValue, gradeValues[i].value) THEN gradeValues[i].letter
  ELSE FindLetterAtOrBelow(gradeValue, i + 1)

getGradeLetterFromValueAtOrBelow(gradeValue) == FindLetterAtOrBelow(gradeValue, 1)

getGradeLetterFromValue(gradeValue) == FindLetter(gradeValue, 1)

\* gradeOptions with the A- and B+ entries exchanged
gradeOptionsExchanged ==
  << [value |-> <<"4", ".", "0">>, label |-> "A / A+ (4.0)"],
     [value |-> <<"3", ".", "3">>, label |-> "B+ (3.3)"],
     [value |-> <<"3", ".", "7">>, label |-> "A- (3.7)"],
     [value |-> <<"3", ".", "0">>, label |-> "B (3.0)"],
     [value |-> <<"2", ".", "7">>, label |-> "B- (2.7)"],
     [value |-> <<"2", ".", "3">>, label |-> "C+ (2.3)"],
     [value |-> <<"2", ".", "0">>, label |-> "C (2.0)"],
     [value |-> <<"1", ".", "7">>, label |-> "C- (1.7)"],
     [value |-> <<"1", ".", "3">>, label |-> "D+ (1.3)"],
     [value |-> <<"1", ".", "0">>, label |-> "D (1.0)"],
     [value |-> <<"0", ".", "7">>, label |-> "D- (0.7)"],
     [value |-> <<"0", ".", "0">>, label |-> "F (0.0)"] >>

\* the gradeOptions array; a value is the sequence of its characters
gradeOptions ==
  << [value |-> <<"4", ".", "0">>, label |-> "A / A+ (4.0)"],
     [value |-> <<"3", ".", "7">>, label |-> "A- (3.7)"],
     [value |-> <<"3", ".", "3">>, label |-> "B+ (3.3)"],
     [value |-> <<"3", ".", "0">>, label |-> "B (3.0)"],
     [value |-> <<"2", ".", "7">>, label |-> "B- (2.7)"],
     [value |-> <<"2", ".", "3">>, label |-> "C+ (2.3)"],
     [value |-> <<"2", ".", "0">>, label |-> "C (2.0)"],
     [value |-> <<"1", ".", "7">>, label |-> "C- (1.7)"],
     [value |-> <<"1", ".", "3">>, label |-> "D+ (1.3)"],
     [value |-> <<"1", ".", "0">>, label |-> "D (1.0)"],
     [value |-> <<"0", ".", "7">>, label |-> "D- (0.7)"],
     [value |-> <<"0", ".", "0">>, label |-> "F (0.0)"] >>

\* the index after the run of decimal digits of str that starts at i
RECURSIVE SkipDigits(_, _)
SkipDigits(str, i) ==
  IF i > Len(str) \/ ~IsDigit(str[i]) THEN i ELSE SkipDigits(str, i + 1)

\* parseFloat(str) of an unsigned decimal without exponent: digits, then
\* optionally a point and more digits; NaN without a digit
parseFloat(str) ==
  LET i0 == SkipWhiteSpace(str, 1)
      i1 == SkipDigits(str, i0)
      pointed == i1 <= Len(str) /\ str[i1] = "."
      i2 == IF pointed THEN SkipDigits(str, i1 + 1) ELSE i1
      places == IF pointed THEN i2 - (i1 + 1) ELSE 0
      whole == ParseDigits(str, i0, 0)
      fraction == IF pointed THEN ParseDigits(str, i1 + 1, 0) ELSE 0
  IN IF i1 = i0 /\ places = 0 THEN NotANumber
     ELSE Decimal(whole * PowerOfTen(places) + fraction, places)

\* calculateGradePoints refusing negative inputs
calculateGradePointsClamped(creditHours, gradeValue) ==
  IF creditHours.sign < 0 \/ gradeValue.sign < 0 THEN Decimal(0, 0)
  ELSE Times(creditHours, gradeValue)

calculateGradePoints(creditHours, gradeValue) == Times(creditHours, gradeValue)

\* the newCourse that onSubmit of the course form hands to POST /api/courses;
\* data.gradeValue is the chosen gradeOptions value, whose coercion to a
\* number and back to a string parseFloat reads as the same number
onSubmit(data) ==
  LET gradeValue == parseFloat(data.gradeValue)
      gradePoints == calculateGradePoints(data.creditHours, gradeValue)
      gradeLetter == getGradeLetterFromValue(gradeValue)
  IN WithSemesterId([name |-> data.name, creditHours |-> data.creditHours,
                     grade |-> gradeLetter, gradeValue |-> gradeValue,
                     gradePoints |-> gradePoints],
                    OrOne(Some(data.semesterId)))

\* the course a record of decimals denotes: creditHours and gradeValue are
\* written in tenths, gradePoints in hundredths
CourseData(course) ==
  [course EXCEPT !.creditHours = Decimal(@, 1), !.gradeValue = Decimal(@, 1),
                 !.gradePoints = Decimal(@, 2)]

\* what the course form accepts: a name, credit hours from 0.5 to 10, one of
\* the grade options, and a semester
FormValues ==
  [name : {"Math"}, creditHours : {Decimal(5, 1), Decimal(30, 1), Decimal(100, 1)},
   gradeValue : {gradeOptions[i].value : i \in 1..Len(gradeOptions)},
   semesterId : {0, 1, 2}]

\* course records handed to the engine: the bodies the routes are given, and
\* two courses as the form submits them, 3 credit hours of B+ and half a
\* credit hour of A-
CourseDataInputs ==
  {CourseData(course) :
     course \in CourseFields \cup UncheckedCourseFields
       \cup { [name |-> "Bio", creditHours |-> 40, grade |-> "B+",
               gradeValue |-> 33, gradePoints |-> 1320] }}
    \cup {onSubmit(data) :
            data \in { [name |-> "Math", creditHours |-> Decimal(30, 1),
                        gradeValue |-> gradeOptions[3].value, semesterId |-> 1],
                       [name |-> "Math", creditHours |-> Decimal(5, 1),
                        gradeValue |-> gradeOptions[2].value, semesterId |-> 1] }}

CourseLists == UNION {[1..n -> CourseDataInputs] : n \in 0..MaxCourseList}

\* GPA and grade values handed to the engine: every hundredth from -2.00 to
\* 4.50, and the results of a division by zero
GpaValues ==
  {Decimal(n, 2) : n \in (0 - 200)..450} \cup {NotANumber, Infinity(1)}

\* credit hours and grade values handed to calculateGradePoints
CreditHoursInputs == {Decimal(n, 1) : n \in {0 - 10, 0, 5, 30, 100}}
GradeValueInputs == {Decimal(n, 1) : n \in {0 - 10, 0, 7, 33, 40}}

\* the calls of the engine functions on these inputs, each with the value it
\* returns; a function of the engine reads nothing but its arguments, so a
\* call is computed once and not again in every state
CalculateCumulativeGPACalls ==
  {[op |-> "calculateCumulativeGPA", arg |-> <<courses>>,
    ret |-> calculateCumulativeGPA(courses)] : courses \in CourseLists}

GetLetterGradeCalls ==
  {[op |-> "getLetterGrade", arg |-> <<gpaValue>>,
    ret |-> getLetterGrade(gpaValue)] : gpaValue \in GpaValues}

GetGradeLetterFromValueCalls ==
  {[op |-> "getGradeLetterFromValue", arg |-> <<gradeValue>>,
    ret |-> getGradeLetterFromValue(gradeValue)] : gradeValue \in GpaValues}

CalculateGradePointsCalls ==
  {[op |-> "calculateGradePoints", arg |-> <<creditHours, gradeValue>>,
    ret |-> calculateGradePoints(creditHours, gradeValue)] :
     creditHours \in CreditHoursInputs, gradeValue \in GradeValueInputs}

OnSubmitCalls ==
  {[op |-> "onSubmit", arg |-> <<data>>, ret |-> onSubmit(data)] :
     data \in FormValues}

\* one engine function has run
Computed(op, arg, ret) ==
  /\ called' = LastCall([op |-> op, arg |-> arg, ret |-> ret])
  /\ before' = storage
  /\ responded' = LastRequest(NoRequest)
  /\ UNCHANGED <<storage, createdSemesterIds, createdCourseIds, suspended>>

CallCalculateCumulativeGPA ==
  \E c \in CalculateCumulativeGPACalls : Computed(c.op, c.arg, c.ret)

CallGetLetterGrade ==
  \E c \in GetLetterGradeCalls : Computed(c.op, c.arg, c.ret)

CallGetGradeLetterFromValue ==
  \E c \in GetGradeLetterFromValueCalls : Computed(c.op, c.arg, c.ret)

CallCalculateGradePoints ==
  \E c \in CalculateGradePointsCalls : Computed(c.op, c.arg, c.ret)

CallOnSubmit ==
  \E c \in OnSubmitCalls : Computed(c.op, c.arg, c.ret)

EngineNext ==
  \/ CallCalculateCumulativeGPA
  \/ CallGetLetterGrade
  \/ CallGetGradeLetterFromValue
  \/ CallCalculateGradePoints
  \/ CallOnSubmit

EngineSpec == Init /\ [][EngineNext]_vars

(***************************************************************************)
(* The semester view of the client (semester-gpa-calculator.tsx)           *)
(***************************************************************************)
\* allCourses of the query of /api/courses: the stored courses, with the
\* numbers their decimals denote
allCourses(courses) == [i \in 1..Len(courses) |-> CourseData(courses[i])]

\* coursesArray.filter(course => course.semesterId === semester.id)
FilterBySemester(coursesArray, semester) ==
  SelectSeq(coursesArray, LAMBDA course : course.semesterId = semester.id)

\* newSemesters of the effect that merges the fetched semesters and courses
SemestersWithGPA(semestersArray, coursesArray) ==
  [i \in 1..Len(semestersArray) |->
     LET semester == semestersArray[i]
         semesterCourses == FilterBySemester(coursesArray, semester)
         gpaResults == calculateCumulativeGPA(semesterCourses)
     IN [name |-> semester.name,
         id |-> semester.id,
         courses |-> semesterCourses,
         totalCreditHours |-> gpaResults.totalCreditHours,
         totalGradePoints |-> gpaResults.totalGradePoints,
         gpa |-> gpaResults.gpa]]

\* semesters.reduce((total, semester) => total + semester[field], 0) from i on
RECURSIVE Reduce(_, _, _, _)
Reduce(semesters, field, i, total) ==
  IF i > Len(semesters) THEN total
  ELSE Reduce(semesters, field, i + 1, Plus(total, semesters[i][field]))

\* allCreditHours > 0 ? allGradePoints / allCreditHours : 0
overallGPA(semesters) ==
  LET allCreditHours == Reduce(semesters, "totalCreditHours", 1, Decimal(0, 0))
      allGradePoints == Reduce(semesters, "totalGradePoints", 1, Decimal(0, 0))
  IN IF GreaterThan(allCreditHours, Decimal(0, 0))
     THEN DividedBy(allGradePoints, allCreditHours)
     ELSE Decimal(0, 0)

(***************************************************************************)
(* Properties                                                              *)
(***************************************************************************)

\* C1: every stored Course's semesterId is the id of a stored Semester.
C1_ReferentialIntegrity ==
  \A c \in DOMAIN storage.courseData :
    storage.courseData[c].semesterId \in DOMAIN storage.semesterData

\* C2 as claimed: the Semester with id 1 is stored in every reachable state,
\* whatever Store operations are called.
C2_DefaultSemesterAlwaysStored == 1 \in DOMAIN storage.semesterData

\* C2 as amended: a step that removes the Semester with id 1 is a call of
\* deleteSemester with id 1; no other Store operation removes it.
C2_OnlyDeleteSemesterOneRemovesDefault ==
  (1 \in DOMAIN before.semesterData /\ 1 \notin DOMAIN storage.semesterData)
    => (call.op = "deleteSemester" /\ call.arg = <<1>> /\ call.ret = TRUE)

C2_DefaultSemesterRemoved ==
  /\ 1 \in DOMAIN before.semesterData
  /\ 1 \notin DOMAIN storage.semesterData

\* C3: DELETE /api/semesters/:id with an id that parses to 1 is answered 400,
\* makes no Store call and leaves the Store as it was, semester 1 included.
C3_DeleteDefaultSemesterRejected ==
  (/\ response.route = "DELETE /api/semesters/:id"
   /\ ~isNaN(parseInt(response.param))
   /\ parseInt(response.param).n = 1)
    => /\ response.status = 400
       /\ call = NoCall
       /\ storage = before
       /\ 1 \in DOMAIN storage.semesterData

C3_DeleteDefaultSemesterAttempted ==
  /\ response.route = "DELETE /api/semesters/:id"
  /\ response.param = <<"1", ".", "5">>
  /\ storage.courseData # EmptyMap
  /\ Cardinality(DOMAIN storage.semesterData) >= 2

\* after deleteSemester(d): no course is listed for d, and every course that
\* referenced d before the call is listed for semester 1, otherwise unchanged
CoursesMovedToDefault(d) ==
  LET inDefault == getCoursesBySemesterId(storage, 1).ret
  IN /\ getCoursesBySemesterId(storage, d).ret = <<>>
     /\ \A c \in DOMAIN before.courseData :
          before.courseData[c].semesterId = d
            => \E i \in 1..Len(inDefault) :
                 inDefault[i] = [before.courseData[c] EXCEPT !.semesterId = 1]

\* C4 as claimed: for every id d, after deleteSemester(d) the courses of d are
\* all listed for semester 1 and getCoursesBySemesterId(d) is empty.
C4_DeletedSemesterListsNoCourse ==
  call.op = "deleteSemester" => CoursesMovedToDefault(call.arg[1])

\* C4 as amended: for every id d other than 1, after deleteSemester(d) the
\* courses of d are all listed for semester 1 and getCoursesBySemesterId(d) is
\* empty.
C4_DeletedNonDefaultSemesterListsNoCourse ==
  (call.op = "deleteSemester" /\ call.arg[1] # 1)
    => CoursesMovedToDefault(call.arg[1])

C4_SemesterWithCoursesDeleted ==
  /\ call.op = "deleteSemester"
  /\ call.arg[1] = 2
  /\ call.ret = TRUE
  /\ \E c \in DOMAIN before.courseData : before.courseData[c].semesterId = 2

\* C5: deleteSemester(d) keeps the set of course ids, changes only the
\* semesterId of the courses that referenced d (to 1), and leaves every other
\* course, every other semester and both counters as they were.
C5_DeleteSemesterFrame ==
  call.op = "deleteSemester" =>
    LET d == call.arg[1]
    IN /\ DOMAIN storage.courseData = DOMAIN before.courseData
       /\ \A c \in DOMAIN before.courseData :
            storage.courseData[c] =
              IF before.courseData[c].semesterId = d
              THEN [before.courseData[c] EXCEPT !.semesterId = 1]
              ELSE before.courseData[c]
       /\ DOMAIN storage.semesterData = (DOMAIN before.semesterData) \ {d}
       /\ \A s \in DOMAIN storage.semesterData :
            storage.semesterData[s] = before.semesterData[s]
       /\ storage.semesterCurrentId = before.semesterCurrentId
       /\ storage.courseCurrentId = before.courseCurrentId

C5_DeleteSemesterAmongOthers ==
  /\ call.op = "deleteSemester"
  /\ call.ret = TRUE
  /\ \E c1, c2 \in DOMAIN before.courseData :
       /\ before.courseData[c1].semesterId = call.arg[1]
       /\ before.courseData[c2].semesterId # call.arg[1]
  /\ storage.semesterData # EmptyMap

\* C6: the k-th createCourse call returns id k, whatever was deleted before.
C6_CourseIdsNeverReused ==
  /\ \A k \in 1..Len(createdCourseIds) : createdCourseIds[k] = k
  /\ call.op = "createCourse" => call.ret.id = Len(createdCourseIds)

C6_CourseCreatedAfterDeletion ==
  /\ call.op = "createCourse"
  /\ Len(createdCourseIds) = 2
  /\ before.courseData = EmptyMap

\* C7: every createSemester a caller issues returns an id >= 2 that no earlier
\* createSemester returned, and no two stored semesters share an id.
C7_SemesterIdsUnique ==
  /\ \A i, j \in 1..Len(createdSemesterIds) :
       i # j => createdSemesterIds[i] # createdSemesterIds[j]
  /\ \A i \in 2..Len(createdSemesterIds) : createdSemesterIds[i] >= 2
  /\ \A a, b \in DOMAIN storage.semesterData :
       storage.semesterData[a].id = storage.semesterData[b].id => a = b

C7_SemesterCreatedAfterDeletion ==
  /\ call.op = "createSemester"
  /\ Len(createdSemesterIds) = 3
  /\ 2 \notin DOMAIN before.semesterData

\* C8: right after initialization exactly one Semester is stored, with id 1 and
\* name "Unsorted"; no Course is stored; the next semester id is 2 and the
\* next course id is 1.
C8_InitialStore ==
  call.op = "constructor" =>
    /\ Len(getSemesters(storage).ret) = 1
    /\ getSemesterById(storage, 1).ret
         = Some([name |-> "Unsorted", id |-> 1, userId |-> 1])
    /\ getCourses(storage).ret = <<>>
    /\ storage.semesterCurrentId = 2
    /\ storage.courseCurrentId = 1

C8_JustConstructed ==
  /\ call.op = "constructor"
  /\ before.semesterData = EmptyMap
  /\ createdSemesterIds # <<>>

\* C9: deleteAllCourses returns true, leaves getCourses() empty and leaves the
\* semesters and both counters as they were.
C9_DeleteAllCoursesFrame ==
  call.op = "deleteAllCourses" =>
    /\ call.ret = TRUE
    /\ getCourses(storage).ret = <<>>
    /\ storage.semesterData = before.semesterData
    /\ storage.semesterCurrentId = before.semesterCurrentId
    /\ storage.courseCurrentId = before.courseCurrentId

C9_CoursesCleared ==
  /\ call.op = "deleteAllCourses"
  /\ before.courseData # EmptyMap
  /\ before.courseCurrentId > 1
  /\ Cardinality(DOMAIN before.semesterData) >= 2

\* C10: a request answered 400 or 404 leaves the Store exactly as it was.
C10_FailureLeavesStoreUnchanged ==
  response.status \in {400, 404} => storage = before

\* C11: deleteSemester(id) returns true exactly when a Semester with that id
\* was stored before the call; afterwards none is stored under that id; only
\* createSemester stores a new id, so a repeated deleteSemester(id) finds
\* nothing and returns false.
C11_DeleteSemesterReportsRemoval ==
  /\ call.op = "deleteSemester" =>
       /\ call.ret = (call.arg[1] \in DOMAIN before.semesterData)
       /\ call.arg[1] \notin DOMAIN storage.semesterData
       /\ deleteSemester(storage, call.arg[1]).ret = FALSE
  /\ (DOMAIN storage.semesterData) \ (DOMAIN before.semesterData) # {}
       => call.op \in {"createSemester", "constructor"}

C11_DeletedTwice ==
  /\ call.op = "deleteSemester"
  /\ call.arg[1] = 2
  /\ call.ret = FALSE
  /\ \E i \in 1..Len(createdSemesterIds) : createdSemesterIds[i] = 2

\* C12: createCourse(fields, s) stores and returns a record with the supplied
\* fields, the next course id, userId 1 and semesterId s (1 when s is omitted);
\* getCourseById finds that record and nothing else changes.  A POST
\* /api/courses body without semesterId puts the course into semester 1.
C12_CreateCourseStoresGivenFields ==
  /\ call.op = "createCourse" =>
       LET insertCourse == call.arg[1]
           semesterId == call.arg[2]
           course == call.ret
       IN /\ course.name = insertCourse.name
          /\ course.creditHours = insertCourse.creditHours
          /\ course.grade = insertCourse.grade
          /\ course.gradeValue = insertCourse.gradeValue
          /\ course.gradePoints = insertCourse.gradePoints
          /\ course.id = before.courseCurrentId
          /\ course.userId = 1
          /\ course.semesterId = IF semesterId = Undefined THEN 1 ELSE semesterId[1]
          /\ getCourseById(storage, course.id).ret = Some(course)
          /\ DOMAIN storage.courseData = (DOMAIN before.courseData) \cup {course.id}
          /\ \A c \in (DOMAIN storage.courseData) \ {course.id} :
               storage.courseData[c] = before.courseData[c]
          /\ storage.semesterData = before.semesterData
          /\ storage.semesterCurrentId = before.semesterCurrentId
  /\ \A fields \in CourseFields :
       createCourse(storage, fields, Undefined).ret.semesterId = 1
  /\ (/\ response.route = "POST /api/courses"
      /\ response.status = 201
      /\ "semesterId" \notin DOMAIN response.body)
       => /\ response.json.semesterId = 1
          /\ getCoursesBySemesterId(storage, 1).ret # <<>>

C12_PostedWithoutSemesterId ==
  /\ response.route = "POST /api/courses"
  /\ response.status = 201
  /\ "semesterId" \notin DOMAIN response.body
  /\ before.courseData # EmptyMap

\* C13: deleteCourse(id) returns true exactly when a Course with that id was
\* stored and then removes exactly that course; otherwise it returns false and
\* the Store is unchanged.  Other courses, the semesters and the counters never
\* change, and DELETE /api/courses/:id answers 200 for true and 404 for false.
C13_DeleteCourseReportsRemoval ==
  (response.route = "DELETE /api/courses/:id" /\ call.op = "deleteCourse") =>
    LET id == call.arg[1]
    IN /\ call.ret = (id \in DOMAIN before.courseData)
       /\ DOMAIN storage.courseData = (DOMAIN before.courseData) \ {id}
       /\ \A c \in DOMAIN storage.courseData :
            storage.courseData[c] = before.courseData[c]
       /\ storage.semesterData = before.semesterData
       /\ storage.semesterCurrentId = before.semesterCurrentId
       /\ storage.courseCurrentId = before.courseCurrentId
       /\ ~call.ret => storage = before
       /\ response.status = IF call.ret THEN 200 ELSE 404

C13_OneOfTwoCoursesDeleted ==
  /\ response.route = "DELETE /api/courses/:id"
  /\ response.status = 200
  /\ storage.courseData # EmptyMap

\* C14: every Course stored by a POST /api/courses answered 201 has a
\* non-empty name and creditHours within [0.5, 10].
C14_StoredCoursesAreValidated ==
  \A c \in DOMAIN storage.courseData :
    /\ storage.courseData[c].name # ""
    /\ storage.courseData[c].creditHours >= 5
    /\ storage.courseData[c].creditHours <= 100

\* 0 + f[1] + ... + f[n], added in this order
RECURSIVE Total(_, _)
Total(f, n) == IF n = 0 THEN Decimal(0, 0) ELSE Plus(Total(f, n - 1), f[n])

SumOfCreditHours(courses) ==
  Total([i \in 1..Len(courses) |-> courses[i].creditHours], Len(courses))

SumOfProducts(courses) ==
  Total([i \in 1..Len(courses) |->
           Times(courses[i].creditHours, courses[i].gradeValue)], Len(courses))

\* the result is gpa = sum(creditHours * gradeValue) / sum(creditHours), with
\* the two sums as totals, all in the arithmetic of the program and in the
\* order of the list; a NaN equals nothing
IsWeightedMean(courses, result) ==
  /\ result.totalCreditHours = SumOfCreditHours(courses)
  /\ result.totalGradePoints = SumOfProducts(courses)
  /\ result.gpa # NotANumber
  /\ result.gpa = DividedBy(SumOfProducts(courses), SumOfCreditHours(courses))

\* C15 as claimed: for every non-empty course list, aggregate returns
\* gpa = sum(creditHours * gradeValue) / sum(creditHours) and the two sums.
C15_GpaIsWeightedMean ==
  (call.op = "calculateCumulativeGPA" /\ call.arg[1] # <<>>)
    => IsWeightedMean(call.arg[1], call.ret)

\* C15 as amended: the same, for every non-empty course list in which every
\* course has gradePoints = creditHours * gradeValue and the creditHours do
\* not sum to zero.
C15_GpaIsWeightedMeanOfConsistentCourses ==
  (/\ call.op = "calculateCumulativeGPA"
   /\ call.arg[1] # <<>>
   /\ \A i \in 1..Len(call.arg[1]) :
        call.arg[1][i].gradePoints
          = Times(call.arg[1][i].creditHours, call.arg[1][i].gradeValue)
   /\ SumOfCreditHours(call.arg[1]) # Decimal(0, 0))
    => IsWeightedMean(call.arg[1], call.ret)

C15_ThreeConsistentCoursesAggregated ==
  /\ call.op = "calculateCumulativeGPA"
  /\ Len(call.arg[1]) = 3
  /\ \A i \in 1..3 :
       call.arg[1][i].gradePoints
         = Times(call.arg[1][i].creditHours, call.arg[1][i].gradeValue)
  /\ call.ret.gpa.exp < 0

\* C16: aggregate of the empty list returns gpa 0, totalCreditHours 0 and
\* totalGradePoints 0.
C16_EmptyListAggregatesToZero ==
  (call.op = "calculateCumulativeGPA" /\ call.arg[1] = <<>>)
    => /\ call.ret.gpa = Decimal(0, 0)
       /\ call.ret.totalCreditHours = Decimal(0, 0)
       /\ call.ret.totalGradePoints = Decimal(0, 0)

C16_EmptyListAggregated ==
  /\ call.op = "calculateCumulativeGPA"
  /\ Len(call.arg[1]) = 0

\* the course lists the Store can hand to the engine
StoredCourseLists ==
  {getCourses(storage).ret}
    \cup {getCoursesBySemesterId(storage, id).ret : id \in IdInputs}

\* C17: every non-empty course list the Store returns has a strictly positive
\* sum of creditHours, so its gpa is a defined number.
C17_StoredListsNeverDivideByZero ==
  \A courses \in StoredCourseLists :
    courses # <<>> =>
      /\ GreaterThan(SumOfCreditHours(allCourses(courses)), Decimal(0, 0))
      /\ calculateCumulativeGPA(allCourses(courses)).gpa.kind = "finite"

\* a and b are the same value, or finite values of one sign that differ by
\* at most k * 2^(3 - Precision) of the larger: k roundings of three bits
Near(a, b, k) ==
  \/ a = b
  \/ /\ a.kind = "finite" /\ b.kind = "finite" /\ a.sign = b.sign
     /\ LET m == Aligned(a, b)
            hi == IF CompareNat(m[1], m[2]) >= 0 THEN m[1] ELSE m[2]
            lo == IF CompareNat(m[1], m[2]) >= 0 THEN m[2] ELSE m[1]
        IN CompareNat(ShiftLeft(SubNat(hi, lo), Precision - 3),
                      MulSmall(hi, k)) <= 0

\* the list in the order p
Permuted(courses, p) == [i \in 1..Len(courses) |-> courses[p[i]]]

\* no course of the list has negative credit hours or grade points
NoneNegative(courses) ==
  \A i \in 1..Len(courses) :
    /\ AtLeast(courses[i].creditHours, Decimal(0, 0))
    /\ AtLeast(courses[i].gradePoints, Decimal(0, 0))

\* C18 as stated: aggregate returns the same gpa and totals for every
\* permutation of the list.
C18_AggregateIsOrderIndependent ==
  call.op = "calculateCumulativeGPA" =>
    \A p \in Permutations(1..Len(call.arg[1])) :
      calculateCumulativeGPA(Permuted(call.arg[1], p)) = call.ret

\* C18: for a list of n courses without negative credit hours or grade
\* points, the gpa and the totals of every permutation are those of the list
\* to within n roundings, and are the same when n <= 2.
C18_AggregateIsOrderIndependentWithinRounding ==
  (call.op = "calculateCumulativeGPA" /\ NoneNegative(call.arg[1])) =>
    \A p \in Permutations(1..Len(call.arg[1])) :
      LET n == Len(call.arg[1])
          other == calculateCumulativeGPA(Permuted(call.arg[1], p))
      IN /\ Near(other.gpa, call.ret.gpa, n)
         /\ Near(other.totalCreditHours, call.ret.totalCreditHours, n)
         /\ Near(other.totalGradePoints, call.ret.totalGradePoints, n)
         /\ n <= 2 => other = call.ret

\* a list of three courses aggregated whose gpa is another in another order
C18_OrderChangesLastBit ==
  /\ call.op = "calculateCumulativeGPA"
  /\ Len(call.arg[1]) = 3
  /\ NoneNegative(call.arg[1])
  /\ \E p \in Permutations(1..3) :
       calculateCumulativeGPA(Permuted(call.arg[1], p)).gpa # call.ret.gpa

\* the GradeScale values in tenths, from the highest
ScaleTenths == <<40, 37, 33, 30, 27, 23, 20, 17, 13, 10, 7, 0>>

\* C19: for a gpaValue >= 0.7 getLetterGrade returns the label of the greatest
\* GradeScale value <= gpaValue, for a gpaValue < 0.7 it returns "F"; each
\* cutoff maps to its own label and, a hundredth below, to the next lower one.
C19_LetterGradeIsGreatestAtOrBelow ==
  (call.op = "getLetterGrade" /\ call.arg[1].kind = "finite") =>
    LET g == call.arg[1]
        atOrBelow == {i \in 1..Len(gradeValues) : Compare(gradeValues[i].value, g) <= 0}
    IN /\ IF Compare(g, Decimal(7, 1)) >= 0
          THEN \E i \in atOrBelow :
                 /\ \A j \in atOrBelow :
                      Compare(gradeValues[j].value, gradeValues[i].value) <= 0
                 /\ call.ret = gradeValues[i].letter
          ELSE call.ret = "F"
       /\ \A i \in 1..(Len(gradeValues) - 1) :
            /\ g = Decimal(ScaleTenths[i], 1) => call.ret = gradeValues[i].letter
            /\ g = Decimal(10 * ScaleTenths[i] - 1, 2)
                 => call.ret = gradeValues[i + 1].letter

C19_JustBelowCutoff ==
  /\ call.op = "getLetterGrade"
  /\ call.arg[1] = Decimal(369, 2)
  /\ call.ret = "B+"

\* C20: getGradeLetterFromValue returns label L exactly when gradeValue equals
\* the GradeScale value of L, and "Unknown" when it equals none.
C20_LetterForValueIsExactMatch ==
  call.op = "getGradeLetterFromValue" =>
    LET g == call.arg[1]
        matches == {i \in 1..Len(gradeValues) : g = Decimal(ScaleTenths[i], 1)}
    IN /\ \A i \in 1..Len(gradeValues) :
            (call.ret = gradeValues[i].letter) <=> (i \in matches)
       /\ (call.ret = "Unknown") <=> (matches = {})

C20_NearbyValueIsUnknown ==
  /\ call.op = "getGradeLetterFromValue"
  /\ call.arg[1] = Decimal(305, 2)
  /\ call.ret = "Unknown"

\* the values of a grade scale, in its order
ScaleValues(scale) == [i \in 1..Len(scale) |-> scale[i].value]

\* C21: gradeValues has exactly 12 labels whose values, in declaration order,
\* are 4.0, 3.7, 3.3, 3.0, 2.7, 2.3, 2.0, 1.7, 1.3, 1.0, 0.7, 0.0: strictly
\* decreasing, pairwise distinct and within [0.0, 4.0]; gradeOptions offers
\* exactly these 12 values in the same order, so the grade value the course
\* form submits is the scale value at the position of the chosen option.
C21_GradeScaleAndOptionsAgree ==
  /\ Len(gradeValues) = 12
  /\ ScaleValues(gradeValues) = [i \in 1..12 |-> Decimal(ScaleTenths[i], 1)]
  /\ \A i \in 1..(Len(gradeValues) - 1) :
       Compare(gradeValues[i].value, gradeValues[i + 1].value) > 0
  /\ \A i, j \in 1..Len(gradeValues) :
       i # j => /\ gradeValues[i].value # gradeValues[j].value
                /\ gradeValues[i].letter # gradeValues[j].letter
  /\ \A i \in 1..Len(gradeValues) :
       /\ Compare(gradeValues[i].value, Decimal(0, 1)) >= 0
       /\ Compare(gradeValues[i].value, Decimal(40, 1)) <= 0
  /\ Len(gradeOptions) = 12
  /\ \A i \in 1..Len(gradeOptions) :
       parseFloat(gradeOptions[i].value) = gradeValues[i].value
  /\ call.op = "onSubmit" =>
       \E i \in 1..Len(gradeOptions) :
         /\ call.arg[1].gradeValue = gradeOptions[i].value
         /\ call.ret.gradeValue = gradeValues[i].value

C21_LastOptionSubmitted ==
  /\ call.op = "onSubmit"
  /\ call.arg[1].gradeValue = gradeOptions[12].value
  /\ call.ret.gradeValue = Decimal(0, 1)
  /\ call.ret.grade = "F"

\* gradePoints = creditHours * gradeValue for a course written in decimals
IsProduct(course) ==
  CourseData(course).gradePoints
    = Times(CourseData(course).creditHours, CourseData(course).gradeValue)

\* C22 as claimed: every Course stored through POST /api/courses has
\* gradePoints = creditHours * gradeValue.
C22_StoredGradePointsAreProduct ==
  \A id \in DOMAIN storage.courseData : IsProduct(storage.courseData[id])

\* C22 as amended: POST /api/courses stores the gradePoints of the body as
\* they are, so the stored course has gradePoints = creditHours * gradeValue
\* exactly when the body has, and then aggregating it sums that product.
C22_StoredGradePointsAreThoseOfBody ==
  (response.route = "POST /api/courses" /\ response.status = 201)
    => LET course == response.json
       IN /\ getCourseById(storage, course.id).ret = Some(course)
          /\ course.gradePoints = response.body.gradePoints
          /\ IsProduct(course) <=> IsProduct(response.body)
          /\ IsProduct(response.body) =>
               calculateCumulativeGPA(allCourses(<<course>>)).totalGradePoints
                 = Times(Decimal(response.body.creditHours, 1),
                         Decimal(response.body.gradeValue, 1))

C22_ProductPosted ==
  /\ response.route = "POST /api/courses"
  /\ response.status = 201
  /\ response.body.creditHours = 30
  /\ response.body.gradeValue = 40
  /\ response.json.gradePoints = 1200
  /\ calculateCumulativeGPA(allCourses(getCourses(storage).ret)).gpa = Decimal(40, 1)

\* C23: calculateGradePoints(c, g) returns exactly c * g for every pair of
\* inputs, zero and negative ones included, without clamping.
C23_GradePointsIsProduct ==
  call.op = "calculateGradePoints" =>
    /\ call.ret = Times(call.arg[1], call.arg[2])
    /\ call.ret.sign = call.arg[1].sign * call.arg[2].sign
    /\ call.ret.mant = <<>> <=> (call.arg[1].mant = <<>> \/ call.arg[2].mant = <<>>)

C23_NegativeCreditHoursMultiplied ==
  /\ call.op = "calculateGradePoints"
  /\ Compare(call.arg[1], Decimal(0, 0)) < 0
  /\ Compare(call.arg[2], Decimal(0, 0)) > 0
  /\ Compare(call.ret, Decimal(0, 0)) < 0

\* C24: a deleteSemester(d) of a stored semester d that was suspended at its
\* await ends as the uninterrupted call would: no request takes effect between its reading of
\* the courses of d and its removal of d, so afterwards no Course refers to
\* the removed d and no Course is stored that was not stored just before.
C24_DeleteSemesterIsAtomic ==
  (call.op = "deleteSemester" /\ call.ret) =>
    /\ storage = deleteSemester(before, call.arg[1]).this
    /\ call.arg[1] # 1 =>
         \A c \in DOMAIN storage.courseData :
           storage.courseData[c].semesterId # call.arg[1]
    /\ DOMAIN storage.courseData \subseteq DOMAIN before.courseData

\* str is an optional sign followed by decimal digits and nothing else
IsDecimalInteger(str) ==
  LET digits == IF str # <<>> /\ str[1] \in {"+", "-"} THEN Tail(str) ELSE str
  IN digits # <<>> /\ \A i \in 1..Len(digits) : IsDigit(digits[i])

IdRoutes ==
  {"DELETE /api/courses/:id", "GET /api/semesters/:id",
   "DELETE /api/semesters/:id", "GET /api/semesters/:semesterId/courses"}

\* C25: on the routes that carry an id, a path parameter that is not a
\* well-formed decimal integer (a numeric prefix followed by other characters
\* included) is answered 400 and causes no Store operation.
C25_MalformedIdRejected ==
  (response.route \in IdRoutes /\ ~IsDecimalInteger(response.param))
    => /\ response.status = 400
       /\ call = NoCall

\* C26: in every Store state each map key is the id of the record stored
\* under it, the next course id is greater than every stored course id, the
\* next semester id is greater than every stored semester id, and no
\* operation decreases either counter.
C26_KeysAndCounters ==
  /\ \A k \in DOMAIN storage.courseData :
       /\ storage.courseData[k].id = k
       /\ storage.courseCurrentId > k
  /\ \A k \in DOMAIN storage.semesterData :
       /\ storage.semesterData[k].id = k
       /\ storage.semesterCurrentId > k
  /\ storage.courseCurrentId >= before.courseCurrentId
  /\ storage.semesterCurrentId >= before.semesterCurrentId

C26_CountersAheadAfterDeletions ==
  /\ call.op \in {"deleteCourse", "deleteSemester", "deleteAllCourses"}
  /\ storage # before
  /\ storage.courseData # EmptyMap
  /\ \A k \in DOMAIN storage.courseData : storage.courseCurrentId > k + 1
  /\ \A k \in DOMAIN storage.semesterData : storage.semesterCurrentId > k + 1

\* the elements of a sequence
Range(seq) == {seq[i] : i \in 1..Len(seq)}

\* C27: in every state reached through the routes, the course lists of the
\* stored semesters are pairwise disjoint and together hold exactly the
\* courses of getCourses(), so the overall GPA of the semester view equals
\* the gpa of aggregate(getCourses()).
C27_GroupingLosesNoCourse ==
  LET semestersArray == getSemesters(storage).ret
      coursesArray == allCourses(getCourses(storage).ret)
      semesters == SemestersWithGPA(semestersArray, coursesArray)
  IN /\ \A i \in 1..Len(semesters) :
          semesters[i].courses
            = allCourses(getCoursesBySemesterId(storage, semesters[i].id).ret)
     /\ \A i, j \in 1..Len(semesters) :
          i # j => Range(semesters[i].courses) \cap Range(semesters[j].courses) = {}
     /\ UNION {Range(semesters[i].courses) : i \in 1..Len(semesters)}
          = Range(coursesArray)
     /\ overallGPA(semesters) = calculateCumulativeGPA(coursesArray).gpa

\* C28: the two letter classifications agree on the scale itself: for each of
\* the 12 gradeValues entries with letter L and value v, both
\* getGradeLetterFromValue(v) and getLetterGrade(v) are L, in the call just
\* made and in the other function on the same argument.
C28_ClassificationsAgreeOnScale ==
  /\ Len(gradeValues) = 12
  /\ \A i \in 1..Len(gradeValues) :
       (call.op \in {"getLetterGrade", "getGradeLetterFromValue"}
          /\ call.arg[1] = gradeValues[i].value) =>
         /\ call.ret = gradeValues[i].letter
         /\ getLetterGrade(call.arg[1]) = gradeValues[i].letter
         /\ getGradeLetterFromValue(call.arg[1]) = gradeValues[i].letter

C28_LowestPassingValueClassified ==
  /\ call.op = "getLetterGrade"
  /\ call.arg[1] = gradeValues[11].value
  /\ call.ret = "D-"
  /\ getGradeLetterFromValue(call.arg[1]) = call.ret

\* every course has credit hours above 0 and grade points that are
\* calculateGradePoints of its credit hours and grade value
OfPositiveProducts(courses) ==
  \A i \in 1..Len(courses) :
    /\ GreaterThan(courses[i].creditHours, Decimal(0, 0))
    /\ courses[i].gradePoints
         = calculateGradePoints(courses[i].creditHours, courses[i].gradeValue)

\* every grade value of the list is a value of the GradeScale
OfScaleValues(courses) ==
  \A i \in 1..Len(courses) :
    \E j \in 1..Len(gradeValues) : courses[i].gradeValue = gradeValues[j].value

\* v is a grade value of the list that no grade value of the list is below
IsSmallestGradeValue(courses, v) ==
  /\ \E i \in 1..Len(courses) : courses[i].gradeValue = v
  /\ \A i \in 1..Len(courses) : AtLeast(courses[i].gradeValue, v)

\* v is a grade value of the list that no grade value of the list is above
IsLargestGradeValue(courses, v) ==
  /\ \E i \in 1..Len(courses) : courses[i].gradeValue = v
  /\ \A i \in 1..Len(courses) : AtLeast(v, courses[i].gradeValue)

\* C29 as stated: for a non-empty list of courses with creditHours > 0 and
\* gradePoints = creditHours * gradeValue, the gpa lies between the smallest
\* and the largest gradeValue of the list, hence within [0.0, 4.0] for
\* GradeScale values, and is v when every gradeValue is v.
C29_GpaIsBetweenGradeValues ==
  (/\ call.op = "calculateCumulativeGPA"
   /\ call.arg[1] # <<>>
   /\ OfPositiveProducts(call.arg[1]))
    => \A lo, hi \in {call.arg[1][i].gradeValue : i \in 1..Len(call.arg[1])} :
         (IsSmallestGradeValue(call.arg[1], lo) /\ IsLargestGradeValue(call.arg[1], hi))
           => /\ AtLeast(call.ret.gpa, lo)
              /\ AtLeast(hi, call.ret.gpa)
              /\ OfScaleValues(call.arg[1])
                   => /\ AtLeast(call.ret.gpa, Decimal(0, 1))
                      /\ AtLeast(Decimal(40, 1), call.ret.gpa)
              /\ lo = hi => StrictEquals(call.ret.gpa, lo)

\* C29: for such a list of n courses the gpa is within n roundings of the
\* range from the smallest to the largest gradeValue, so within n roundings
\* of v when every gradeValue is v, and is within [0.0, 4.0] for GradeScale
\* values.
C29_GpaIsBetweenGradeValuesWithinRounding ==
  (/\ call.op = "calculateCumulativeGPA"
   /\ call.arg[1] # <<>>
   /\ OfPositiveProducts(call.arg[1]))
    => \A lo, hi \in {call.arg[1][i].gradeValue : i \in 1..Len(call.arg[1])} :
         (IsSmallestGradeValue(call.arg[1], lo) /\ IsLargestGradeValue(call.arg[1], hi))
           => /\ AtLeast(call.ret.gpa, lo) \/ Near(call.ret.gpa, lo, Len(call.arg[1]))
              /\ AtLeast(hi, call.ret.gpa) \/ Near(call.ret.gpa, hi, Len(call.arg[1]))
              /\ OfScaleValues(call.arg[1])
                   => /\ AtLeast(call.ret.gpa, Decimal(0, 1))
                      /\ AtLeast(Decimal(40, 1), call.ret.gpa)

\* three courses of one grade value aggregated to a gpa that is not this value
C29_MeanOfEqualValuesRounded ==
  /\ call.op = "calculateCumulativeGPA"
  /\ Len(call.arg[1]) = 3
  /\ OfPositiveProducts(call.arg[1])
  /\ \A i \in 1..3 : call.arg[1][i].gradeValue = call.arg[1][1].gradeValue
  /\ call.ret.gpa # call.arg[1][1].gradeValue

\* C30: updateSemesterName(id, name) returns the semester of this id with the
\* new name and the id and userId it had, or undefined when none is stored
\* under the id and then stores nothing; the other semesters, the courses,
\* both id counters and the set of stored semester ids stay as they were.
C30_UpdateSemesterNameChangesOnlyTheName ==
  call.op = "updateSemesterName" =>
    LET id == call.arg[1]
        name == call.arg[2]
    IN /\ id \in DOMAIN before.semesterData
            => /\ call.ret # Undefined
               /\ call.ret[1].name = name
               /\ call.ret[1].id = before.semesterData[id].id
               /\ call.ret[1].userId = before.semesterData[id].userId
               /\ DOMAIN call.ret[1] = DOMAIN before.semesterData[id]
               /\ storage.semesterData[id] = call.ret[1]
       /\ id \notin DOMAIN before.semesterData
            => /\ call.ret = Undefined
               /\ storage = before
       /\ DOMAIN storage.semesterData = DOMAIN before.semesterData
       /\ \A k \in DOMAIN before.semesterData :
            k # id => storage.semesterData[k] = before.semesterData[k]
       /\ storage.courseData = before.courseData
       /\ storage.semesterCurrentId = before.semesterCurrentId
       /\ storage.courseCurrentId = before.courseCurrentId

\* a semester renamed while another semester and a course are stored
C30_SemesterRenamedBesideOthers ==
  /\ call.op = "updateSemesterName"
  /\ call.ret # Undefined
  /\ storage.semesterData[call.arg[1]].name
       # before.semesterData[call.arg[1]].name
  /\ Cardinality(DOMAIN before.semesterData) > 1
  /\ before.courseData # EmptyMap

====
